---- MODULE Spec2Model ----
(***************************************************************************)
(* Smith-Waterman local aligner with ranked enumeration of non-overlapping *)
(* local alignments (src/src/smith_waterman.c).                            *)
(*                                                                         *)
(* The enumerator (smith_waterman_align2, _follow_hit,                     *)
(* smith_waterman_fetch, sort_match_indices, the history structure) is     *)
(* translated from the C source.  The DP fill (aligner_align), the         *)
(* traceback primitive (alignment_reverse_move) and the scoring lookup     *)
(* live in sibling files that are not part of the source tree at hand;     *)
(* they are modelled from sections 4.1-4.3 of the specification.           *)
(***************************************************************************)
EXTENDS Integers, Sequences, FiniteSets, TLC

VARIABLES
  seq_a, seq_b,          \* aligner->seq_a, aligner->seq_b (1-based sequences of symbols)
  scoring,               \* aligner->scoring
  score_width,           \* aligner->score_width
  score_height,          \* aligner->score_height
  match_scores,          \* aligner->match_scores  [0..arr_size-1 -> Int]
  gap_a_scores,          \* aligner->gap_a_scores
  gap_b_scores,          \* aligner->gap_b_scores
  match_scores_mask,     \* hist->match_scores_mask: the set of indices whose bit is set
  hits_capacity,         \* hist->hits_capacity
  sorted_match_indices,  \* hist->sorted_match_indices[0 .. num_of_hits-1]
  num_of_hits,           \* hist->num_of_hits
  next_hit,              \* hist->next_hit
  result,                \* the caller's alignment_t
  last_call,             \* "new", "align" or "fetch": the last operation on the session
  fetch_ret,             \* return value of the last smith_waterman_fetch (0 or 1)
  returned,              \* history: the alignments fetched since the last align
  num_aligns             \* history: number of align calls so far

vars == << seq_a, seq_b, scoring, score_width, score_height, match_scores,
           gap_a_scores, gap_b_scores, match_scores_mask, hits_capacity,
           sorted_match_indices, num_of_hits, next_hit, result, last_call,
           fetch_ret, returned, num_aligns >>

(***************************************************************************)
(* Bounds of the model and the inputs the caller may pass.                 *)
(***************************************************************************)
MaxLen == 3      \* longest sequence
MaxCells == 12   \* largest matrix, in cells: (len_a + 1) * (len_b + 1)
MaxAligns == 2   \* align calls on one session
MaxLongLen == 4    \* longest sequence of a session with one align
MaxLongCells == 20 \* largest matrix of a session with one align

Sigma == {"A", "C"}

RECURSIVE SeqsUpTo(_, _)
SeqsUpTo(S, n) ==
  IF n = 0 THEN {<< >>}
  ELSE LET shorter == SeqsUpTo(S, n - 1)
       IN  shorter \cup {Append(s, c) : s \in {t \in shorter : Len(t) = n - 1}, c \in S}

\* The pairs of non-empty sequences the caller aligns.  lookup only compares
\* symbols, so renaming the symbols changes nothing and a may start with "A".
Inputs ==
  LET all == SeqsUpTo(Sigma, MaxLen) \ {<< >>}
  IN  { p \in {a \in all : a[1] = "A"} \X all :
          (Len(p[1]) + 1) * (Len(p[2]) + 1) <= MaxCells }

Scorings ==
  { [match |-> 3, mismatch |-> -3, gap_open |-> -1, gap_extend |-> -1] }

(***************************************************************************)
(* Helpers.                                                                *)
(***************************************************************************)
Max2(p, q) == IF p >= q THEN p ELSE q
Max4(p, q, r, s) == Max2(Max2(p, q), Max2(r, s))

ToArray(s) == [p \in 0 .. Len(s) - 1 |-> s[p + 1]]

ARR_2D_X(pos, width) == pos % width
ARR_2D_Y(pos, width) == pos \div width
ARR_2D_INDEX(width, x, y) == y * width + x

RECURSIVE ROUNDUP2POW_from(_, _)
ROUNDUP2POW_from(p, n) == IF p >= n THEN p ELSE ROUNDUP2POW_from(2 * p, n)
ROUNDUP2POW(n) == ROUNDUP2POW_from(1, n)

(***************************************************************************)
(* Scoring lookup, DP fill and reverse_move: specification sections 4.1,   *)
(* 4.2 and 4.3.                                                            *)
(***************************************************************************)
SCORE_MIN == -1000

lookup(sc, a, b) == IF a = b THEN sc.match ELSE sc.mismatch

\* One cell of the three matrices; m, ga, gb hold the cells before pos
\* (row-major), as 1-based sequences.
FillCell(m, ga, gb, pos, a, b, sc, width) ==
  LET x == ARR_2D_X(pos, width)
      y == ARR_2D_Y(pos, width)
  IN  IF x = 0 \/ y = 0
      THEN [m |-> 0, ga |-> SCORE_MIN, gb |-> SCORE_MIN]
      ELSE LET s      == lookup(sc, a[x], b[y])
               upleft == ARR_2D_INDEX(width, x - 1, y - 1) + 1
               xm1    == ARR_2D_INDEX(width, x - 1, y) + 1
               ym1    == ARR_2D_INDEX(width, x, y - 1) + 1
           IN  [m  |-> Max4(0, m[upleft] + s, ga[upleft] + s, gb[upleft] + s),
                ga |-> Max2(m[xm1] + sc.gap_open, ga[xm1] + sc.gap_extend),
                gb |-> Max2(m[ym1] + sc.gap_open, gb[ym1] + sc.gap_extend)]

RECURSIVE FillFrom(_, _, _, _, _, _, _, _)
FillFrom(m, ga, gb, pos, a, b, sc, width) ==
  IF pos = width * (Len(b) + 1)
  THEN [match_scores |-> ToArray(m), gap_a_scores |-> ToArray(ga),
        gap_b_scores |-> ToArray(gb)]
  ELSE LET c == FillCell(m, ga, gb, pos, a, b, sc, width)
       IN  FillFrom(Append(m, c.m), Append(ga, c.ga), Append(gb, c.gb),
                    pos + 1, a, b, sc, width)

\* aligner_align(aligner, a, b, len_a, len_b, scoring, 1)
aligner_align(a, b, sc) ==
  LET width == Len(a) + 1
      f     == FillFrom(<< >>, << >>, << >>, 0, a, b, sc, width)
  IN  [seq_a |-> a, seq_b |-> b, scoring |-> sc,
       score_width |-> width, score_height |-> Len(b) + 1,
       match_scores |-> f.match_scores, gap_a_scores |-> f.gap_a_scores,
       gap_b_scores |-> f.gap_b_scores]

\* The aligner of the current state, as the record the operators take.
Aligner ==
  [seq_a |-> seq_a, seq_b |-> seq_b, scoring |-> scoring,
   score_width |-> score_width, score_height |-> score_height,
   match_scores |-> match_scores, gap_a_scores |-> gap_a_scores,
   gap_b_scores |-> gap_b_scores]

\* The predecessor for a step whose three edges cost em, ega, egb, landing
\* on cell (x, y): preference order M, GA, GB.
PickPredecessor(al, cur, x, y, em, ega, egb, allowed) ==
  LET pos == ARR_2D_INDEX(al.score_width, x, y)
  IN  IF "M" \in allowed /\ al.match_scores[pos] + em = cur.score
      THEN [matrix |-> "M", score |-> al.match_scores[pos], x |-> x, y |-> y, pos |-> pos]
      ELSE IF "GA" \in allowed /\ al.gap_a_scores[pos] + ega = cur.score
      THEN [matrix |-> "GA", score |-> al.gap_a_scores[pos], x |-> x, y |-> y, pos |-> pos]
      ELSE IF "GB" \in allowed /\ al.gap_b_scores[pos] + egb = cur.score
      THEN [matrix |-> "GB", score |-> al.gap_b_scores[pos], x |-> x, y |-> y, pos |-> pos]
      ELSE [matrix |-> "INVALID", score |-> 0, x |-> x, y |-> y, pos |-> pos]

alignment_reverse_move(cur, al) ==
  LET go == al.scoring.gap_open
      ge == al.scoring.gap_extend
  IN  CASE cur.matrix = "M" ->
             LET s == lookup(al.scoring, al.seq_a[cur.x], al.seq_b[cur.y])
             IN  PickPredecessor(al, cur, cur.x - 1, cur.y - 1, s, s, s, {"M", "GA", "GB"})
        [] cur.matrix = "GA" ->
             PickPredecessor(al, cur, cur.x - 1, cur.y, go, ge, 0, {"M", "GA"})
        [] cur.matrix = "GB" ->
             PickPredecessor(al, cur, cur.x, cur.y - 1, go, 0, ge, {"M", "GB"})
        [] OTHER -> cur

(***************************************************************************)
(* The initial state: smith_waterman_new() and an empty caller result.     *)
(***************************************************************************)
EmptyResult ==
  [result_a |-> << >>, result_b |-> << >>, length |-> 0, score |-> 0,
   pos_a |-> 0, pos_b |-> 0, len_a |-> 0, len_b |-> 0]

\* _init_history: bit_array_create(256) has every bit clear.
NewHistory ==
  [match_scores_mask |-> {}, hits_capacity |-> 256,
   sorted_match_indices |-> << >>, num_of_hits |-> 0, next_hit |-> 0]

Init ==
  /\ seq_a = << >>
  /\ seq_b = << >>
  /\ scoring = [match |-> 0, mismatch |-> 0, gap_open |-> 0, gap_extend |-> 0]
  /\ score_width = 0
  /\ score_height = 0
  /\ match_scores = << >>
  /\ gap_a_scores = << >>
  /\ gap_b_scores = << >>
  /\ match_scores_mask = NewHistory.match_scores_mask
  /\ hits_capacity = NewHistory.hits_capacity
  /\ sorted_match_indices = NewHistory.sorted_match_indices
  /\ num_of_hits = NewHistory.num_of_hits
  /\ next_hit = NewHistory.next_hit
  /\ result = EmptyResult
  /\ last_call = "new"
  /\ fetch_ret = 0
  /\ returned = << >>
  /\ num_aligns = 0

(***************************************************************************)
(* The enumerator: src/src/smith_waterman.c.                               *)
(***************************************************************************)

\* The comparator with the tie on the score broken from right to left.
sort_match_indices_right_to_left(a, b, scores, width) ==
  LET diff == scores[b] - scores[a]
  IN  IF diff = 0 THEN (b % width) - (a % width)
      ELSE IF diff > 0 THEN 1 ELSE -1

\* The comparator with the sign of the score difference inverted.
sort_match_indices_ascending_score(a, b, scores, width) ==
  LET diff == scores[b] - scores[a]
  IN  IF diff = 0 THEN (a % width) - (b % width)
      ELSE IF diff > 0 THEN -1 ELSE 1

\* The comparator passed to sort_r: negative when a sorts before b.
sort_match_indices(a, b, scores, width) ==
  LET diff == scores[b] - scores[a]
  IN  IF diff = 0 THEN (a % width) - (b % width)
      ELSE IF diff > 0 THEN 1 ELSE -1

\* sort_r: the library sort is not stable, so its result is any arrangement
\* of the elements that the comparator accepts as sorted.
RECURSIVE sort_r(_, _, _)
sort_r(S, scores, width) ==
  IF S = {} THEN {<< >>}
  ELSE LET first == {p \in S : \A q \in S : sort_match_indices(p, q, scores, width) <= 0}
       IN  UNION { {<<p>> \o rest : rest \in sort_r(S \ {p}, scores, width)} : p \in first }

\* _ensure_history_capacity: the capacity after the call.
ensure_history_capacity(capacity, arr_size) ==
  IF arr_size > capacity THEN ROUNDUP2POW(arr_size) ELSE capacity

\* bit_array_set_all on a bit array of the given number of bits.
bit_array_set_all(nbits) == 0 .. nbits - 1

\* A collecting loop that stops one cell early.
CollectHitsOffByOne(scores, arr_size) ==
  {pos \in 0 .. arr_size - 2 : scores[pos] > 0}

\* The loop of smith_waterman_align2 that collects the hits.
CollectHits(scores, arr_size) == {pos \in 0 .. arr_size - 1 : scores[pos] > 0}

\* The history of the current state, as the record the operators take.
History ==
  [match_scores_mask |-> match_scores_mask, hits_capacity |-> hits_capacity,
   sorted_match_indices |-> sorted_match_indices, num_of_hits |-> num_of_hits,
   next_hit |-> next_hit]

\* smith_waterman_align2 without its bit_array_set_all.
AlignHistoryStaleMask(al, hist, srt) ==
  LET arr_size == al.score_width * al.score_height
      cap      == ensure_history_capacity(hist.hits_capacity, arr_size)
  IN  [match_scores_mask |-> hist.match_scores_mask, hits_capacity |-> cap,
       sorted_match_indices |-> srt, num_of_hits |-> Len(srt), next_hit |-> 0]

\* The history smith_waterman_align2 leaves, from the history hist it finds
\* and the outcome srt of the sort of the hits.
AlignHistory(al, hist, srt) ==
  LET arr_size == al.score_width * al.score_height
      cap      == ensure_history_capacity(hist.hits_capacity, arr_size)
  IN  [match_scores_mask |-> bit_array_set_all(cap), hits_capacity |-> cap,
       sorted_match_indices |-> srt, num_of_hits |-> Len(srt), next_hit |-> 0]

\* The calls align(a, b, sc) the caller may make, each with the aligner that
\* aligner_align leaves and the outcomes of the sort of its hits: both depend
\* on the arguments of the call only, not on the session.
AlignCalls ==
  { [a |-> p[1], b |-> p[2], sc |-> sc,
     al |-> aligner_align(p[1], p[2], sc),
     sorted |-> LET al == aligner_align(p[1], p[2], sc)
                IN  sort_r(CollectHits(al.match_scores,
                                       al.score_width * al.score_height),
                           al.match_scores, al.score_width)]
    : p \in Inputs, sc \in Scorings }

smith_waterman_align2(call) ==
  /\ num_aligns < MaxAligns
  /\ \E al \in {call.al}, srt \in call.sorted :
       \E h \in {AlignHistory(al, History, srt)} :
         /\ seq_a' = al.seq_a
         /\ seq_b' = al.seq_b
         /\ scoring' = al.scoring
         /\ score_width' = al.score_width
         /\ score_height' = al.score_height
         /\ match_scores' = al.match_scores
         /\ gap_a_scores' = al.gap_a_scores
         /\ gap_b_scores' = al.gap_b_scores
         /\ match_scores_mask' = h.match_scores_mask
         /\ hits_capacity' = h.hits_capacity
         /\ sorted_match_indices' = h.sorted_match_indices
         /\ num_of_hits' = h.num_of_hits
         /\ next_hit' = h.next_hit
  /\ last_call' = "align"
  /\ returned' = << >>
  /\ num_aligns' = num_aligns + 1
  /\ UNCHANGED << result, fetch_ret >>

\* A traceback that starts in the gap matrix GA.
StartOfInGap(al, arr_index) ==
  [matrix |-> "GA", score |-> al.match_scores[arr_index],
   x |-> ARR_2D_X(arr_index, al.score_width),
   y |-> ARR_2D_Y(arr_index, al.score_width), pos |-> arr_index]

\* The cursor of a traceback at the hit arr_index.
StartOf(al, arr_index) ==
  [matrix |-> "M", score |-> al.match_scores[arr_index],
   x |-> ARR_2D_X(arr_index, al.score_width),
   y |-> ARR_2D_Y(arr_index, al.score_width), pos |-> arr_index]

\* A probe pass that does not clear the bit.
ProbeClearKeepsBit(mask, pos) == mask

\* The bit operation of the probe pass on a visited cell.
ProbeClear(mask, pos) == mask \ {pos}

\* A probe pass that counts the cell of score 0 in length.
RECURSIVE ProbePassCountsEnd(_, _, _, _, _)
ProbePassCountsEnd(al, mask, cur, length, path) ==
  IF cur.pos \notin mask
  THEN [found |-> FALSE, mask |-> mask, length |-> length, path |-> Append(path, cur)]
  ELSE LET cleared == mask \ {cur.pos}
       IN  IF cur.score = 0
           THEN [found |-> TRUE, mask |-> cleared, length |-> length + 1,
                 path |-> Append(path, cur)]
           ELSE ProbePassCountsEnd(al, cleared, alignment_reverse_move(cur, al),
                                   length + 1, Append(path, cur))

\* A probe pass that sets again the bits it has cleared when it aborts.
RECURSIVE ProbePassRollback(_, _, _, _, _)
ProbePassRollback(al, mask, cur, length, path) ==
  IF cur.pos \notin mask
  THEN [found |-> FALSE, mask |-> mask \cup {path[k].pos : k \in 1 .. Len(path)},
        length |-> length, path |-> Append(path, cur)]
  ELSE LET cleared == mask \ {cur.pos}
       IN  IF cur.score = 0
           THEN [found |-> TRUE, mask |-> cleared, length |-> length,
                 path |-> Append(path, cur)]
           ELSE ProbePassRollback(al, cleared, alignment_reverse_move(cur, al),
                                  length + 1, Append(path, cur))

\* The probe pass of _follow_hit (the first loop): path is the sequence of
\* cursors visited so far.
RECURSIVE ProbePass(_, _, _, _, _)
ProbePass(al, mask, cur, length, path) ==
  IF cur.pos \notin mask
  THEN [found |-> FALSE, mask |-> mask, length |-> length, path |-> Append(path, cur)]
  ELSE LET cleared == ProbeClear(mask, cur.pos)
       IN  IF cur.score = 0
           THEN [found |-> TRUE, mask |-> cleared, length |-> length,
                 path |-> Append(path, cur)]
           ELSE ProbePass(al, cleared, alignment_reverse_move(cur, al),
                          length + 1, Append(path, cur))

\* An emit pass that writes the symbol of seq_a in a GA column.
EmitColumnNoGap(al, cur) ==
  CASE cur.matrix = "M"  -> << al.seq_a[cur.x], al.seq_b[cur.y] >>
    [] cur.matrix = "GA" -> << al.seq_a[cur.x], al.seq_b[cur.y] >>
    [] cur.matrix = "GB" -> << al.seq_a[cur.x], "-" >>
    [] OTHER -> << "!", "!" >>

\* The column the emit pass writes for the cursor cur: <<result_a[i], result_b[i]>>.
EmitColumn(al, cur) ==
  CASE cur.matrix = "M"  -> << al.seq_a[cur.x], al.seq_b[cur.y] >>
    [] cur.matrix = "GA" -> << "-", al.seq_b[cur.y] >>
    [] cur.matrix = "GB" -> << al.seq_a[cur.x], "-" >>
    [] OTHER -> << "!", "!" >>

\* unsigned int i: a value of 2^31 or more is held as the negative number with
\* the same 32 bits (4294967295 as -1), so that i-- is a subtraction of one.
UnsignedDec(i) == i - 1

\* The emit pass of _follow_hit (the second loop): wa and wb are the bytes
\* written so far, indexed as in C; steps counts the reverse moves.
RECURSIVE EmitPass(_, _, _, _, _, _)
EmitPass(al, cur, i, wa, wb, steps) ==
  IF cur.score > 0
  THEN LET col == EmitColumn(al, cur)
       IN  EmitPass(al, alignment_reverse_move(cur, al), UnsignedDec(i),
                    (i :> col[1]) @@ wa, (i :> col[2]) @@ wb, steps + 1)
  ELSE [cur |-> cur, wa |-> wa, wb |-> wb, steps |-> steps]

\* The string a buffer holds after the emit pass: bytes 0 .. length-1, a byte
\* the pass did not write keeps what the buffer held ("?" when it held none).
BufferString(old, w, length) ==
  [k \in 1 .. length |->
     IF (k - 1) \in DOMAIN w THEN w[k - 1]
     ELSE IF k \in DOMAIN old THEN old[k] ELSE "?"]

\* A _follow_hit that stores the length and the score in the result as soon
\* as the probe pass ends, aborted or not.
follow_hit_early_store(al, mask, arr_index, res) ==
  LET start == StartOf(al, arr_index)
      probe == ProbePass(al, mask, start, 0, << >>)
  IN  IF ~probe.found
      THEN [found |-> FALSE, mask |-> probe.mask,
            result |-> [res EXCEPT !.length = probe.length, !.score = start.score],
            probe |-> probe,
            steps |-> 0, writes |-> {}]
      ELSE LET emit == EmitPass(al, start, UnsignedDec(probe.length),
                                << >>, << >>, 0)
           IN  [found  |-> TRUE,
                mask   |-> probe.mask,
                result |-> [result_a |-> BufferString(res.result_a, emit.wa, probe.length),
                            result_b |-> BufferString(res.result_b, emit.wb, probe.length),
                            length   |-> probe.length,
                            score    |-> start.score,
                            pos_a    |-> emit.cur.x,
                            pos_b    |-> emit.cur.y,
                            len_a    |-> start.x - emit.cur.x,
                            len_b    |-> start.y - emit.cur.y],
                probe  |-> probe,
                steps  |-> emit.steps,
                writes |-> DOMAIN emit.wa]

\* _follow_hit(sw, arr_index, result) on the bitmap mask.
follow_hit(al, mask, arr_index, res) ==
  LET start == StartOf(al, arr_index)
      probe == ProbePass(al, mask, start, 0, << >>)
  IN  IF ~probe.found
      THEN [found |-> FALSE, mask |-> probe.mask, result |-> res, probe |-> probe,
            steps |-> 0, writes |-> {}]
      ELSE LET emit == EmitPass(al, start, UnsignedDec(probe.length),
                                << >>, << >>, 0)
           IN  [found  |-> TRUE,
                mask   |-> probe.mask,
                result |-> [result_a |-> BufferString(res.result_a, emit.wa, probe.length),
                            result_b |-> BufferString(res.result_b, emit.wb, probe.length),
                            length   |-> probe.length,
                            score    |-> start.score,
                            pos_a    |-> emit.cur.x,
                            pos_b    |-> emit.cur.y,
                            len_a    |-> start.x - emit.cur.x,
                            len_b    |-> start.y - emit.cur.y],
                probe  |-> probe,
                steps  |-> emit.steps,
                writes |-> DOMAIN emit.wa]

\* A fetch loop that leaves next_hit on the hit it returns.
RECURSIVE FetchLoopNoAdvance(_, _, _, _, _, _)
FetchLoopNoAdvance(al, sorted, nhits, mask, nh, res) ==
  IF nh < nhits
  THEN LET arr_index == sorted[nh + 1]
       IN  IF arr_index \in mask
           THEN LET f == follow_hit(al, mask, arr_index, res)
                IN  IF f.found
                    THEN [ret |-> 1, mask |-> f.mask, next_hit |-> nh,
                          result |-> f.result, hit |-> arr_index, follow |-> f]
                    ELSE FetchLoopNoAdvance(al, sorted, nhits, f.mask, nh + 1, f.result)
           ELSE FetchLoopNoAdvance(al, sorted, nhits, mask, nh + 1, res)
  ELSE [ret |-> 0, mask |-> mask, next_hit |-> nh, result |-> res,
        hit |-> 0, follow |-> [found |-> FALSE]]

\* A fetch loop that rewinds the enumerator when it is exhausted.
RECURSIVE FetchLoopRewind(_, _, _, _, _, _)
FetchLoopRewind(al, sorted, nhits, mask, nh, res) ==
  IF nh < nhits
  THEN LET arr_index == sorted[nh + 1]
       IN  IF arr_index \in mask
           THEN LET f == follow_hit(al, mask, arr_index, res)
                IN  IF f.found
                    THEN [ret |-> 1, mask |-> f.mask, next_hit |-> nh + 1,
                          result |-> f.result, hit |-> arr_index, follow |-> f]
                    ELSE FetchLoopRewind(al, sorted, nhits, f.mask, nh + 1, f.result)
           ELSE FetchLoopRewind(al, sorted, nhits, mask, nh + 1, res)
  ELSE [ret |-> 0, mask |-> 0 .. al.score_width * al.score_height - 1,
        next_hit |-> 0, result |-> res, hit |-> 0, follow |-> [found |-> FALSE]]

\* The loop of smith_waterman_fetch.
RECURSIVE FetchLoop(_, _, _, _, _, _)
FetchLoop(al, sorted, nhits, mask, nh, res) ==
  IF nh < nhits
  THEN LET arr_index == sorted[nh + 1]
       IN  IF arr_index \in mask
           THEN LET f == follow_hit(al, mask, arr_index, res)
                IN  IF f.found
                    THEN [ret |-> 1, mask |-> f.mask, next_hit |-> nh + 1,
                          result |-> f.result, hit |-> arr_index, follow |-> f]
                    ELSE FetchLoop(al, sorted, nhits, f.mask, nh + 1, f.result)
           ELSE FetchLoop(al, sorted, nhits, mask, nh + 1, res)
  ELSE [ret |-> 0, mask |-> mask, next_hit |-> nh, result |-> res,
        hit |-> 0, follow |-> [found |-> FALSE]]

\* The cells of a probe path.
PathCells(path) == {path[k].pos : k \in 1 .. Len(path)}

smith_waterman_fetch ==
  \E r \in {FetchLoop(Aligner, sorted_match_indices, num_of_hits,
                        match_scores_mask, next_hit, result)} :
      /\ match_scores_mask' = r.mask
      /\ next_hit' = r.next_hit
      /\ result' = r.result
      /\ fetch_ret' = r.ret
      /\ last_call' = "fetch"
      /\ returned' = IF r.ret = 1
                     THEN Append(returned,
                                 [hit |-> r.hit, path |-> r.follow.probe.path,
                                  steps |-> r.follow.steps, writes |-> r.follow.writes,
                                  result |-> r.result])
                     ELSE returned
      /\ UNCHANGED << seq_a, seq_b, scoring, score_width, score_height,
                      match_scores, gap_a_scores, gap_b_scores, hits_capacity,
                      sorted_match_indices, num_of_hits, num_aligns >>

Next ==
  \/ \E call \in AlignCalls : smith_waterman_align2(call)
  \/ smith_waterman_fetch

Spec == Init /\ [][Next]_vars

\* A session with one align, then fetches: longer sequences, so that runs of
\* two gaps occur, and a scoring with gap_open # gap_extend.
LongScorings ==
  Scorings \cup { [match |-> 4, mismatch |-> -4, gap_open |-> -2, gap_extend |-> -1] }

LongCalls ==
  LET all == SeqsUpTo(Sigma, MaxLongLen) \ {<< >>}
  IN  { [a |-> p[1], b |-> p[2], sc |-> sc,
         al |-> aligner_align(p[1], p[2], sc),
         sorted |-> LET al == aligner_align(p[1], p[2], sc)
                    IN  sort_r(CollectHits(al.match_scores,
                                           al.score_width * al.score_height),
                               al.match_scores, al.score_width)]
        : p \in { q \in {a \in all : a[1] = "A"} \X all :
                    (Len(q[1]) + 1) * (Len(q[2]) + 1) <= MaxLongCells },
          sc \in LongScorings }

NextOneAlign ==
  \/ \E call \in LongCalls : num_aligns = 0 /\ smith_waterman_align2(call)
  \/ smith_waterman_fetch

SpecOneAlign == Init /\ [][NextOneAlign]_vars

\* The fill alone: one align on a new session, over three symbols and every
\* pair of lengths up to MaxLen.
FillSigma == {"A", "C", "G"}

FillCalls ==
  LET all == SeqsUpTo(FillSigma, MaxLen) \ {<< >>}
  IN  { [a |-> p[1], b |-> p[2], sc |-> sc,
         al |-> aligner_align(p[1], p[2], sc),
         sorted |-> LET al == aligner_align(p[1], p[2], sc)
                    IN  sort_r(CollectHits(al.match_scores,
                                           al.score_width * al.score_height),
                               al.match_scores, al.score_width)]
        : p \in {a \in all : a[1] = "A"} \X all, sc \in Scorings }

NextFill == \E call \in FillCalls : num_aligns = 0 /\ smith_waterman_align2(call)

SpecFill == Init /\ [][NextFill]_vars

\* A session with one align over three symbols, then fetches: tracebacks that
\* cross each other in different matrices need a third symbol.
WideCalls ==
  LET all == SeqsUpTo(FillSigma, MaxLongLen) \ {<< >>}
  IN  { [a |-> p[1], b |-> p[2], sc |-> sc,
         al |-> aligner_align(p[1], p[2], sc),
         sorted |-> LET al == aligner_align(p[1], p[2], sc)
                    IN  sort_r(CollectHits(al.match_scores,
                                           al.score_width * al.score_height),
                               al.match_scores, al.score_width)]
        : p \in { q \in {a \in all : a[1] = "A"} \X all :
                    (Len(q[1]) + 1) * (Len(q[2]) + 1) <= MaxLongCells },
          sc \in Scorings }

NextWide ==
  \/ \E call \in WideCalls : num_aligns = 0 /\ smith_waterman_align2(call)
  \/ smith_waterman_fetch

SpecWide == Init /\ [][NextWide]_vars

\* The scenarios S3 and S6 of the specification, and the sessions around them:
\* one align of a prefix of the longer sequence against a prefix of either
\* shorter one, under either scoring, then fetches.
S3_A == << "A", "C", "G", "T" >>
S3_B == << "A", "G", "T" >>
S3_Scoring == [match |-> 2, mismatch |-> -2, gap_open |-> -4, gap_extend |-> -1]
S6_A == << "A", "C", "G", "T", "A", "C", "G", "T" >>
S6_B == << "A", "C", "G", "T" >>
S6_Scoring == [match |-> 2, mismatch |-> -2, gap_open |-> -2, gap_extend |-> -1]

Prefixes(s) == {SubSeq(s, 1, n) : n \in 1 .. Len(s)}

ScenarioCalls ==
  { [a |-> p[1], b |-> p[2], sc |-> sc,
     al |-> aligner_align(p[1], p[2], sc),
     sorted |-> LET al == aligner_align(p[1], p[2], sc)
                IN  sort_r(CollectHits(al.match_scores,
                                       al.score_width * al.score_height),
                           al.match_scores, al.score_width)]
    : p \in Prefixes(S6_A) \X (Prefixes(S6_B) \cup Prefixes(S3_B)),
      sc \in {S3_Scoring, S6_Scoring} }

NextScenario ==
  \/ \E call \in ScenarioCalls : num_aligns = 0 /\ smith_waterman_align2(call)
  \/ smith_waterman_fetch

SpecScenario == Init /\ [][NextScenario]_vars

(***************************************************************************)
(* Properties.                                                             *)
(***************************************************************************)
ReturnedCells(k) == PathCells(returned[k].path)

\* C1 (non-overlap): no two alignments fetched after one align share a
\* traceback cell, the cells of an alignment being those its probe pass
\* visited, from the end cell to the cell where curr_score reached 0.
NonOverlap ==
  \A i, j \in 1 .. Len(returned) :
    i # j => ReturnedCells(i) \cap ReturnedCells(j) = {}

\* Two alignments fetched, the later one ending on a cell next to a cell of
\* the earlier one.
NonOverlapWitness ==
  /\ Len(returned) >= 2
  /\ \E c \in ReturnedCells(1) : returned[2].hit \in {c + 1, c + score_width}

EndColumn(k) == ARR_2D_X(returned[k].hit, score_width)

\* C2 (ordering): the scores of successively fetched alignments never
\* increase, and of two successive alignments with the same score the earlier
\* one ends in the smaller or equal column x.
Ordering ==
  \A k \in 1 .. Len(returned) - 1 :
    /\ returned[k].result.score >= returned[k + 1].result.score
    /\ returned[k].result.score = returned[k + 1].result.score
         => EndColumn(k) <= EndColumn(k + 1)

\* Three alignments fetched: two with the same score ending in different
\* columns, then one with a smaller score.
OrderingWitness ==
  /\ Len(returned) >= 3
  /\ \E k \in 1 .. Len(returned) - 2 :
       /\ returned[k].result.score = returned[k + 1].result.score
       /\ EndColumn(k) < EndColumn(k + 1)
       /\ returned[k + 1].result.score > returned[k + 2].result.score

HasPositiveCell == \E pos \in DOMAIN match_scores : match_scores[pos] > 0

GlobalMaximum ==
  CHOOSE v \in {match_scores[pos] : pos \in DOMAIN match_scores} :
    \A pos \in DOMAIN match_scores : match_scores[pos] <= v

\* C3 (first hit): the first fetch after an align returns true with the global
\* maximum of M as score, taking the first sorted hit, when M has a positive
\* cell, and returns false when M has none.
FirstHit ==
  [][ (last_call = "align" /\ last_call' = "fetch") =>
        IF HasPositiveCell
        THEN fetch_ret' = 1 /\ next_hit' = 1 /\ result'.score = GlobalMaximum
        ELSE fetch_ret' = 0 ]_vars

\* The first fetch has returned the maximum, and M has smaller positive cells.
FirstHitWitness ==
  /\ last_call = "fetch"
  /\ Len(returned) = 1
  /\ next_hit = 1
  /\ result.score = GlobalMaximum
  /\ \E pos \in DOMAIN match_scores :
       match_scores[pos] > 0 /\ match_scores[pos] < GlobalMaximum

ColumnType(ca, cb) == IF ca = "-" THEN "GA" ELSE IF cb = "-" THEN "GB" ELSE "M"

\* The score of the rows ra, rb from column k on, prev being the type of
\* column k - 1: lookup for a column without gap, gap_open for the first
\* column of a run of gaps in one row and gap_extend for each further one.
RECURSIVE RowsScore(_, _, _, _, _)
RowsScore(sc, ra, rb, k, prev) ==
  IF k > Len(ra) THEN 0
  ELSE LET t == ColumnType(ra[k], rb[k])
       IN  (IF t = "M" THEN lookup(sc, ra[k], rb[k])
            ELSE IF t = prev THEN sc.gap_extend ELSE sc.gap_open)
           + RowsScore(sc, ra, rb, k + 1, t)

\* C4 (score preservation): the score of every fetched alignment is M at its
\* end cell and is the score recomputed from the rows result_a, result_b.
ScorePreservation ==
  \A k \in 1 .. Len(returned) :
    LET r == returned[k].result
    IN  /\ r.score = match_scores[returned[k].hit]
        /\ Len(r.result_a) = Len(r.result_b)
        /\ r.score = RowsScore(scoring, r.result_a, r.result_b, 1, "M")

\* An alignment with a run of two gaps has been fetched, under a scoring
\* whose gap_open and gap_extend differ.
ScorePreservationWitness ==
  /\ scoring.gap_open # scoring.gap_extend
  /\ \E k \in 1 .. Len(returned) :
       LET r == returned[k].result
       IN  \E c \in 1 .. r.length - 1 :
             \/ r.result_a[c] = "-" /\ r.result_a[c + 1] = "-"
             \/ r.result_b[c] = "-" /\ r.result_b[c + 1] = "-"

NotGap(c) == c # "-"

Substring(s, pos, len) == SubSeq(s, pos + 1, pos + len)

\* C5 (round trip): result_a without its '-' is the substring of A at pos_a
\* of length len_a, and result_b without its '-' is the substring of B at
\* pos_b of length len_b, for every fetched alignment, gaps or not.
RoundTrip ==
  \A k \in 1 .. Len(returned) :
    LET r == returned[k].result
    IN  /\ SelectSeq(r.result_a, NotGap) = Substring(seq_a, r.pos_a, r.len_a)
        /\ SelectSeq(r.result_b, NotGap) = Substring(seq_b, r.pos_b, r.len_b)

\* C6 (bookends): the first and the last column of every fetched alignment
\* have no gap; the traceback starts in M, and the step on which curr_score
\* becomes 0 goes from M to M.
Bookends ==
  \A k \in 1 .. Len(returned) :
    LET r    == returned[k].result
        path == returned[k].path
        n    == Len(path)
    IN  /\ r.length >= 1
        /\ NotGap(r.result_a[1]) /\ NotGap(r.result_b[1])
        /\ NotGap(r.result_a[r.length]) /\ NotGap(r.result_b[r.length])
        /\ n >= 2
        /\ path[1].matrix = "M"
        /\ path[n].score = 0
        /\ path[n].matrix = "M"
        /\ path[n - 1].matrix = "M"
        /\ \A j \in 1 .. n - 1 : path[j].score > 0

\* A fetched alignment whose traceback went through a gap matrix.
BookendsWitness ==
  \E k \in 1 .. Len(returned) :
    \E j \in 1 .. Len(returned[k].path) : returned[k].path[j].matrix \in {"GA", "GB"}

\* C7 (exhaustion): a fetch that follows a fetch that returned false returns
\* false and leaves next_hit, the bitmap, sorted_hits and the result as
\* they are.
ExhaustionIdempotent ==
  [][ (last_call = "fetch" /\ fetch_ret = 0 /\ last_call' = "fetch") =>
        /\ fetch_ret' = 0
        /\ UNCHANGED << next_hit, match_scores_mask, sorted_match_indices,
                        num_of_hits, result >> ]_vars

\* The enumerator is exhausted after it returned alignments and rejected hits.
ExhaustionWitness ==
  /\ last_call = "fetch"
  /\ fetch_ret = 0
  /\ Len(returned) >= 1
  /\ next_hit = num_of_hits
  /\ num_of_hits > Len(returned)

\* The alignments that successive fetch calls return until one returns false.
RECURSIVE FetchSequence(_, _, _, _, _, _)
FetchSequence(al, sorted, nhits, mask, nh, res) ==
  LET r == FetchLoop(al, sorted, nhits, mask, nh, res)
  IN  IF r.ret = 0 THEN << >>
      ELSE <<r.result>> \o FetchSequence(al, sorted, nhits, r.mask, r.next_hit, r.result)

SortOutcomes ==
  sort_r(CollectHits(match_scores, score_width * score_height),
         match_scores, score_width)

\* C8 (determinism): after an align, every arrangement of the hits that the
\* comparator accepts as sorted yields the same sequence of alignments.
Determinism ==
  last_call = "align" =>
    \A srt \in SortOutcomes :
      FetchSequence(Aligner, srt, num_of_hits, match_scores_mask, next_hit, result)
        = FetchSequence(Aligner, sorted_match_indices, num_of_hits,
                        match_scores_mask, next_hit, result)

\* The scores of the alignments of a substring of a ending at x with a
\* substring of b ending at y that start with a pair of symbols and whose
\* last column is of type t: "M" a pair, "XA" a symbol of a against a gap,
\* "XB" a symbol of b against a gap.  A gap in one sequence may follow a gap
\* in the other.
RECURSIVE AlignmentScores(_, _, _, _, _, _)
AlignmentScores(a, b, sc, t, x, y) ==
  CASE t = "M" ->
         IF x = 0 \/ y = 0 THEN {}
         ELSE LET s == lookup(sc, a[x], b[y])
              IN  {s} \cup {v + s : v \in AlignmentScores(a, b, sc, "M", x - 1, y - 1)
                                      \cup AlignmentScores(a, b, sc, "XA", x - 1, y - 1)
                                      \cup AlignmentScores(a, b, sc, "XB", x - 1, y - 1)}
    [] t = "XA" ->
         IF x = 0 THEN {}
         ELSE {v + sc.gap_open : v \in AlignmentScores(a, b, sc, "M", x - 1, y)
                                   \cup AlignmentScores(a, b, sc, "XB", x - 1, y)}
              \cup {v + sc.gap_extend : v \in AlignmentScores(a, b, sc, "XA", x - 1, y)}
    [] t = "XB" ->
         IF y = 0 THEN {}
         ELSE {v + sc.gap_open : v \in AlignmentScores(a, b, sc, "M", x, y - 1)
                                   \cup AlignmentScores(a, b, sc, "XA", x, y - 1)}
              \cup {v + sc.gap_extend : v \in AlignmentScores(a, b, sc, "XB", x, y - 1)}

Maximum(S) == CHOOSE v \in S : \A w \in S : w <= v

\* C9 (fill correctness): after align, every cell of M is >= 0 and is the
\* maximum score of the local alignments ending at the cell, the empty one
\* and those with adjacent gaps in the two sequences included.
FillCorrect ==
  last_call = "align" =>
    \A x \in 0 .. Len(seq_a), y \in 0 .. Len(seq_b) :
      LET pos == ARR_2D_INDEX(score_width, x, y)
      IN  /\ match_scores[pos] >= 0
          /\ match_scores[pos]
               = Maximum({0} \cup AlignmentScores(seq_a, seq_b, scoring, "M", x, y))

\* C10 (align resets the enumerator): after an align, whatever came before,
\* next_hit is 0, the bit of every cell is set, sorted_hits holds the hits of
\* the new matrices, and the fetch sequence is that of a new session after
\* the same align.
AlignResets ==
  last_call = "align" =>
    LET fresh_al == aligner_align(seq_a, seq_b, scoring)
        fresh    == AlignHistory(fresh_al, NewHistory, sorted_match_indices)
    IN  /\ next_hit = 0
        /\ \A pos \in 0 .. score_width * score_height - 1 : pos \in match_scores_mask
        /\ Aligner = fresh_al
        /\ sorted_match_indices \in SortOutcomes
        /\ num_of_hits = Len(sorted_match_indices)
        /\ FetchSequence(Aligner, sorted_match_indices, num_of_hits,
                         match_scores_mask, next_hit, result)
             = FetchSequence(fresh_al, fresh.sorted_match_indices, fresh.num_of_hits,
                             fresh.match_scores_mask, fresh.next_hit, result)

\* A second align on a session that has fetched an alignment.
AlignResetsWitness ==
  /\ last_call = "align"
  /\ num_aligns >= 2
  /\ result.length > 0
  /\ num_of_hits > 0


\* The session is in scenario S3: the last align was align(S3_A, S3_B, S3_Scoring).
InS3 == seq_a = S3_A /\ seq_b = S3_B /\ scoring = S3_Scoring

\* C11 as stated (scenario S3): the first fetch after align("ACGT", "AGT") with
\* match=2, mismatch=-2, gap_open=-4, gap_extend=-1 returns result_a = "ACGT",
\* result_b = "A-GT" and score = 2.
S3FirstFetchGapped ==
  [][ (InS3 /\ last_call = "align" /\ last_call' = "fetch") =>
        /\ fetch_ret' = 1
        /\ result'.result_a = << "A", "C", "G", "T" >>
        /\ result'.result_b = << "A", "-", "G", "T" >>
        /\ result'.score = 2 ]_vars

\* C11 as amended (scenario S3): the first fetch after align("ACGT", "AGT") with
\* match=2, mismatch=-2, gap_open=-4, gap_extend=-1 returns the ungapped
\* alignment result_a = "GT", result_b = "GT" with score = 4, pos_a = 2 and
\* pos_b = 1, the maximum of M; the gapped alignment of the whole of both
\* sequences scores 2 only.
S3FirstFetch ==
  [][ (InS3 /\ last_call = "align" /\ last_call' = "fetch") =>
        /\ fetch_ret' = 1
        /\ result'.result_a = << "G", "T" >>
        /\ result'.result_b = << "G", "T" >>
        /\ result'.length = 2
        /\ result'.score = 4
        /\ result'.pos_a = 2 /\ result'.pos_b = 1
        /\ result'.len_a = 2 /\ result'.len_b = 2 ]_vars

\* Scenario S3 after its first fetch.
S3FirstFetchWitness ==
  /\ InS3
  /\ last_call = "fetch"
  /\ next_hit = 1
  /\ Len(returned) = 1
  /\ result = returned[1].result

\* The session is in scenario S6: the last align was align(S6_A, S6_B, S6_Scoring).
InS6 == seq_a = S6_A /\ seq_b = S6_B /\ scoring = S6_Scoring

\* The cells with a positive score in M that are not the end cell of an
\* alignment fetched so far.
LeftOver ==
  CollectHits(match_scores, score_width * score_height)
    \ {returned[k].hit : k \in 1 .. Len(returned)}

\* C12 (scenario S6, multiple hits): after align("ACGTACGT", "ACGT") with
\* match=2, mismatch=-2, gap_open=-2, gap_extend=-1 the fetches return true with
\* score 8 and pos_a = 0, then true with score 8 and pos_a = 4, then false.  In
\* every session, a hit that fetch has passed is consumed (its bit is clear:
\* fetch found it clear, or the probe from it cleared it and then ran into a
\* clear bit or reached the score 0), and when fetch returns false every
\* positive cell left over has been passed and is consumed.
S6FetchSequence ==
  /\ InS6 =>
       /\ Len(returned) <= 2
       /\ Len(returned) >= 1 =>
            returned[1].result.score = 8 /\ returned[1].result.pos_a = 0
       /\ Len(returned) >= 2 =>
            returned[2].result.score = 8 /\ returned[2].result.pos_a = 4
       /\ (last_call = "fetch" /\ fetch_ret = 0) => Len(returned) = 2
  /\ \A k \in 1 .. next_hit : sorted_match_indices[k] \notin match_scores_mask
  /\ (last_call = "fetch" /\ fetch_ret = 0) =>
       /\ next_hit = num_of_hits
       /\ LeftOver \cap match_scores_mask = {}

\* Scenario S6 after the fetch that returned false: two alignments fetched,
\* the other positive cells left over, and a cell that only the probe of a
\* rejected hit has cleared.
S6FetchSequenceWitness ==
  /\ InS6
  /\ last_call = "fetch" /\ fetch_ret = 0
  /\ Len(returned) = 2
  /\ Cardinality(LeftOver) = num_of_hits - 2
  /\ \E pos \in 0 .. score_width * score_height - 1 :
       /\ pos \notin match_scores_mask
       /\ match_scores[pos] = 0
       /\ pos \notin ReturnedCells(1) \cup ReturnedCells(2)

\* The cells of the full traceback from the hit arr_index: the cells the probe
\* pass visits when no bit is clear, from the end cell to the cell of score 0.
FullPathCells(al, arr_index) ==
  PathCells(ProbePass(al, bit_array_set_all(al.score_width * al.score_height),
                      StartOf(al, arr_index), 0, << >>).path)

\* The probes that abort during one call of fetch, each with the bitmap that
\* _follow_hit leaves when it returns 0.
RECURSIVE Aborts(_, _, _, _, _, _)
Aborts(al, sorted, nhits, mask, nh, res) ==
  IF nh < nhits
  THEN LET arr_index == sorted[nh + 1]
       IN  IF arr_index \in mask
           THEN LET f == follow_hit(al, mask, arr_index, res)
                IN  IF f.found THEN {}
                    ELSE {[hit |-> arr_index, before |-> mask, mask |-> f.mask,
                           probe |-> f.probe]}
                           \cup Aborts(al, sorted, nhits, f.mask, nh + 1, f.result)
           ELSE Aborts(al, sorted, nhits, mask, nh + 1, res)
  ELSE {}

AbortsOfFetch ==
  Aborts(Aligner, sorted_match_indices, num_of_hits, match_scores_mask,
         next_hit, result)

\* C13 as stated (abort consistency): when the probe pass of _follow_hit aborts on a
\* clear bit, every cell of the full traceback from the hit's end cell to its
\* cell of score 0, the cells beyond the abort cell included, has its bit
\* clear when _follow_hit returns 0.
AbortConsistency ==
  [][ last_call' = "fetch" =>
        \A ab \in AbortsOfFetch :
          FullPathCells(Aligner, ab.hit) \cap ab.mask = {} ]_vars

\* C13 as amended (abort consistency): when the probe pass of _follow_hit
\* aborts on a clear bit, every cell the probe visited, from the hit's end
\* cell to the abort cell, has its bit clear when _follow_hit returns 0 and
\* when fetch returns, and the probe has changed no other bit: a cell of the
\* full traceback beyond the abort cell keeps the bit it had.
AbortConsumesVisited ==
  [][ last_call' = "fetch" =>
        \A ab \in AbortsOfFetch :
          /\ ~ab.probe.found
          /\ PathCells(ab.probe.path) \cap ab.mask = {}
          /\ PathCells(ab.probe.path) \cap match_scores_mask' = {}
          /\ ab.mask = ab.before \ PathCells(ab.probe.path)
          /\ PathCells(ab.probe.path) \subseteq FullPathCells(Aligner, ab.hit) ]_vars

\* A fetch has returned after a probe that aborted: the full traceback of a
\* rejected hit has a cell of score 0 in M (a cell it crosses in a gap matrix)
\* that is clear and that no fetched alignment has used.
AbortConsumesVisitedWitness ==
  /\ last_call = "fetch"
  /\ \E k \in 1 .. next_hit :
       /\ sorted_match_indices[k] \in LeftOver
       /\ \E pos \in FullPathCells(Aligner, sorted_match_indices[k]) :
            /\ match_scores[pos] = 0
            /\ pos \notin match_scores_mask
            /\ \A j \in 1 .. Len(returned) : pos \notin ReturnedCells(j)

\* A path of cursors on which every reverse move goes to a cell that is not
\* to the right and not below and is nearer to the corner (0, 0), leaves a
\* positive score, and has the score 0 wherever it is on the border.
Descends(path) ==
  /\ \A k \in 1 .. Len(path) - 1 :
       /\ path[k].score > 0
       /\ path[k + 1].x <= path[k].x
       /\ path[k + 1].y <= path[k].y
       /\ path[k + 1].x + path[k + 1].y < path[k].x + path[k].y
  /\ \A k \in 1 .. Len(path) :
       (path[k].x = 0 \/ path[k].y = 0) => path[k].score = 0
  /\ Len(path) <= path[1].x + path[1].y + 1

\* C14 (termination and forward progress): in every call of fetch each probe,
\* aborted or not, and the emit pass move strictly towards the corner (0, 0)
\* with every reverse move and stop at a score of 0 no later than the border,
\* so that their loops end within x + y moves; the call advances next_hit by
\* at least one, unless next_hit is num_of_hits already, and then it returns
\* false and leaves next_hit; and the alignments fetched since the align are
\* never more than the hits passed, which are never more than num_of_hits.
ForwardProgress ==
  [][ last_call' = "fetch" =>
        /\ next_hit < num_of_hits => next_hit' >= next_hit + 1
        /\ next_hit = num_of_hits => next_hit' = next_hit /\ fetch_ret' = 0
        /\ fetch_ret' = 0 => next_hit' = num_of_hits
        /\ Len(returned') <= next_hit'
        /\ next_hit' <= num_of_hits
        /\ \A ab \in AbortsOfFetch : Descends(ab.probe.path)
        /\ fetch_ret' = 1 =>
             LET r == returned'[Len(returned')]
             IN  /\ Descends(r.path)
                 /\ r.path[Len(r.path)].score = 0
                 /\ r.steps = Len(r.path) - 1 ]_vars

\* A fetch has returned false after two alignments and a rejected hit, and
\* the traceback of a fetched alignment has a move in a gap matrix, which
\* keeps x or keeps y.
ForwardProgressWitness ==
  /\ last_call = "fetch" /\ fetch_ret = 0
  /\ Len(returned) >= 2
  /\ next_hit = num_of_hits
  /\ num_of_hits > Len(returned)
  /\ \E j \in 1 .. Len(returned) :
       \E k \in 1 .. Len(returned[j].path) - 1 :
         \/ returned[j].path[k + 1].y = returned[j].path[k].y
         \/ returned[j].path[k + 1].x = returned[j].path[k].x

\* C15 (hit list content): after align, sorted_match_indices holds each cell
\* index pos with match_scores[pos] > 0 exactly once and no other index,
\* num_of_hits is the number of such cells, and of two adjacent entries the
\* earlier has the greater score, or the same score and a smaller or equal
\* column pos mod score_width.
HitList ==
  last_call # "new" =>
    /\ Len(sorted_match_indices) = num_of_hits
    /\ \A pos \in DOMAIN match_scores :
         match_scores[pos] > 0 =>
           Cardinality({k \in 1 .. num_of_hits : sorted_match_indices[k] = pos}) = 1
    /\ \A k \in 1 .. num_of_hits :
         /\ sorted_match_indices[k] \in DOMAIN match_scores
         /\ match_scores[sorted_match_indices[k]] > 0
    /\ num_of_hits = Cardinality({pos \in DOMAIN match_scores : match_scores[pos] > 0})
    /\ \A k \in 1 .. num_of_hits - 1 :
         LET p == sorted_match_indices[k]
             q == sorted_match_indices[k + 1]
         IN  \/ match_scores[p] > match_scores[q]
             \/ /\ match_scores[p] = match_scores[q]
                /\ p % score_width <= q % score_width

\* The second align of a session has left a list of other hits than the
\* first: it has two adjacent hits of the same score in different columns, two
\* of the same score in the same column, two of different scores, and cells
\* of score 0 that are not in it.
HitListWitness ==
  /\ last_call = "align"
  /\ num_aligns = 2
  /\ num_of_hits >= 4
  /\ num_of_hits < score_width * score_height
  /\ \E k \in 1 .. num_of_hits - 1 :
       /\ match_scores[sorted_match_indices[k]] = match_scores[sorted_match_indices[k + 1]]
       /\ sorted_match_indices[k] % score_width < sorted_match_indices[k + 1] % score_width
  /\ \E k \in 1 .. num_of_hits - 1 :
       /\ match_scores[sorted_match_indices[k]] = match_scores[sorted_match_indices[k + 1]]
       /\ sorted_match_indices[k] % score_width = sorted_match_indices[k + 1] % score_width
  /\ \E k \in 1 .. num_of_hits - 1 :
       match_scores[sorted_match_indices[k]] > match_scores[sorted_match_indices[k + 1]]

\* C16 (probe/emit agreement): for every alignment fetch has returned, the
\* emit pass took as many reverse moves as the probe pass counted in length,
\* length is at least 1, the emit pass wrote the indices 0 .. length-1 of
\* result_a and result_b, each once (as many writes as indices) and no index
\* outside them (none below 0, where the unsigned index would have wrapped),
\* and both rows have the length result.length.
ProbeEmitAgreement ==
  \A k \in 1 .. Len(returned) :
    LET r == returned[k]
    IN  /\ r.result.length >= 1
        /\ r.steps = r.result.length
        /\ Len(r.path) = r.result.length + 1
        /\ r.writes = 0 .. r.result.length - 1
        /\ Cardinality(r.writes) = r.steps
        /\ Len(r.result.result_a) = r.result.length
        /\ Len(r.result.result_b) = r.result.length
        /\ \A i \in 1 .. r.result.length :
             r.result.result_a[i] # "?" /\ r.result.result_b[i] # "?"

\* Two alignments fetched into the same result: a longer one, with a gap,
\* then a shorter one.
ProbeEmitAgreementWitness ==
  /\ Len(returned) >= 2
  /\ result = returned[Len(returned)].result
  /\ \E k \in 1 .. Len(returned) - 1 :
       /\ returned[k].result.length >= 3
       /\ returned[k + 1].result.length < returned[k].result.length
       /\ \E i \in 1 .. returned[k].result.length :
            returned[k].result.result_a[i] = "-" \/ returned[k].result.result_b[i] = "-"

\* C17 (bitmap and cursor invariants): a fetch only clears bits of the bitmap
\* and sets none, never decreases next_hit, leaves 0 <= next_hit <=
\* num_of_hits, and does not modify sorted_match_indices, num_of_hits or the
\* three matrices; an align leaves 0 <= next_hit <= num_of_hits as well.
FetchFrame ==
  [][ /\ last_call' = "fetch" =>
           /\ match_scores_mask' \subseteq match_scores_mask
           /\ next_hit' >= next_hit
           /\ sorted_match_indices' = sorted_match_indices
           /\ num_of_hits' = num_of_hits
           /\ match_scores' = match_scores
           /\ gap_a_scores' = gap_a_scores
           /\ gap_b_scores' = gap_b_scores
      /\ 0 <= next_hit' /\ next_hit' <= num_of_hits' ]_vars

\* After the second align of a session, fetches have returned two alignments
\* and passed a hit without returning it, and bits are clear.
FetchFrameWitness ==
  /\ last_call = "fetch"
  /\ num_aligns = 2
  /\ Len(returned) >= 2
  /\ next_hit > Len(returned)
  /\ next_hit < num_of_hits
  /\ \E pos \in 0 .. score_width * score_height - 1 : pos \notin match_scores_mask

\* C18 (result untouched on failure): a fetch that returns false leaves every
\* field of the caller's result as it was (result_a, result_b, length, score,
\* pos_a, pos_b, len_a, len_b), also when it has probed and rejected hits; the
\* result changes only in a fetch that returns true, and then it is the
\* alignment of that fetch.
ResultUntouched ==
  [][ /\ (last_call' = "fetch" /\ fetch_ret' = 0) => result' = result
      /\ result' # result => last_call' = "fetch" /\ fetch_ret' = 1
      /\ (last_call' = "fetch" /\ fetch_ret' = 1) =>
           result' = returned'[Len(returned')].result ]_vars

\* The fetch after the first one has returned false: the first fetch took
\* the first hit, so the cell of score 0 in M that is clear outside the one
\* fetched alignment was cleared by a probe of the failing fetch, which
\* rejected its hit; the result still is the first alignment.
ResultUntouchedWitness ==
  /\ last_call = "fetch" /\ fetch_ret = 0
  /\ Len(returned) = 1
  /\ returned[1].hit = sorted_match_indices[1]
  /\ next_hit = num_of_hits
  /\ result = returned[1].result
  /\ result.length >= 2
  /\ \E pos \in 0 .. score_width * score_height - 1 :
       /\ match_scores[pos] = 0
       /\ pos \notin match_scores_mask
       /\ pos \notin ReturnedCells(1)

====
